---------------------------- MODULE Spec2Model ----------------------------
(***************************************************************************)
(* State-machine model of the NextLogic AI backend (src/server.js, the     *)
(* "Complete Backend System" variant, lines 1-471): the in-memory          *)
(* credential store, the JWT session helpers, the requireAuth /            *)
(* requireTeacher middleware and the register, login, remix and teacher    *)
(* handlers.  Node runs one handler at a time and suspends it only at an   *)
(* await, so every action is the code between two awaits.                  *)
(***************************************************************************)
EXTENDS Integers, Sequences, FiniteSets, Bags, TLC

VARIABLES users, aiUsageLog, now, pending, issued, last, GEMINI_API_KEY

vars == <<users, aiUsageLog, now, pending, issued, last, GEMINI_API_KEY>>

(***************************************************************************)
(* Bounds of the exploration: MaxUsers registrations may reach users.push  *)
(* (so as many may be suspended at once), MaxInflight logins or remixes    *)
(* are suspended at an await at once, MaxTokens distinct session tokens    *)
(* are handed out, the clock takes MaxMs steps of 1 ms within a week and   *)
(* MaxWeeks jumps of 7 days, and MaxLog upstream calls are dispatched      *)
(* beyond those already logged.  Where remixes overlap, MaxOverlap of them  *)
(* are suspended at once and MaxUses of them are dispatched.  On a full    *)
(* log MaxAppends further remixes are dispatched.                          *)
(***************************************************************************)
MaxUsers == 2
MaxInflight == 1
MaxTokens == 1
MaxMs == 1
MaxWeeks == 1
MaxLog == 1
MaxOverlap == 2
MaxUses == 2
MaxAppends == 2

(***************************************************************************)
(* JavaScript values: a JSON field is absent (undefined), a string or a    *)
(* number.  Strings the code only compares or measures are TLA+ strings;   *)
(* strings it scans (access_code, content) are sequences of characters.    *)
(***************************************************************************)
Undefined == [t |-> "undefined"]
Str(s) == [t |-> "string", s |-> s]
Num(n) == [t |-> "number", n |-> n]

\* JavaScript truthiness, the `!x` of the handlers' checks.
Truthy(v) ==
  CASE v.t = "undefined" -> FALSE
    [] v.t = "string" -> Len(v.s) > 0
    [] v.t = "number" -> v.n # 0
    [] OTHER -> TRUE

LowerChars == <<"a","b","c","d","e","f","g","h","i","j","k","l","m",
                "n","o","p","q","r","s","t","u","v","w","x","y","z">>
UpperChars == <<"A","B","C","D","E","F","G","H","I","J","K","L","M",
                "N","O","P","Q","R","S","T","U","V","W","X","Y","Z">>

\* String.prototype.toUpperCase on a sequence of characters.
toUpperCase(s) ==
  [i \in DOMAIN s |->
     IF \E k \in DOMAIN LowerChars : LowerChars[k] = s[i]
     THEN UpperChars[CHOOSE k \in DOMAIN LowerChars : LowerChars[k] = s[i]]
     ELSE s[i]]

\* String.prototype.startsWith.
startsWith(s, prefix) ==
  /\ Len(s) >= Len(prefix)
  /\ SubSeq(s, 1, Len(prefix)) = prefix

TEACHER == <<"T","E","A","C","H","E","R">>

(***************************************************************************)
(* The clock.  now is Date.now() in milliseconds; it advances by 1 ms or   *)
(* by seven days.                                                          *)
(***************************************************************************)
JwtLifetimeSec == 604800
WeekMs == JwtLifetimeSec * 1000

\* Date.now().toString()
DateNowString == ToString(now)

\* new Date().toISOString(): a timestamp text that parses back to the instant.
toISOString(ms) == [iso |-> ms]

\* new Date(text) - the instant an ISO text denotes.
parseDate(text) == text.iso

(***************************************************************************)
(* Array.prototype.find over users: the index of the first match, 0 if     *)
(* none.  A user record is never removed or moved, so its index stands for *)
(* the object reference the handlers hold.                                 *)
(***************************************************************************)
FirstIndex(seq, P(_)) ==
  IF \E i \in DOMAIN seq : P(seq[i])
  THEN CHOOSE i \in DOMAIN seq : P(seq[i]) /\ \A j \in 1..(i - 1) : ~P(seq[j])
  ELSE 0

findByEmail(email) == FirstIndex(users, LAMBDA u : u.email = email)

findById(id) == FirstIndex(users, LAMBDA u : u.id = id)

(***************************************************************************)
(* bcryptjs: hash(password, 10) and compare(password, hash).  The salt is  *)
(* left out: compare succeeds exactly on the password that was hashed.     *)
(***************************************************************************)
bcryptHash(password) == [bcrypt |-> password.s]

bcryptCompare(password, hash) ==
  password.t = "string" /\ hash = bcryptHash(password)

(***************************************************************************)
(* Session tokens (jsonwebtoken, HS256).  A token is its payload and the   *)
(* MAC of the payload under the signing key; iat and exp are in seconds.   *)
(***************************************************************************)
JWT_SECRET == "nextlogic-secret-key-change-in-production"

Null == [t |-> "null"]

NowSec == now \div 1000

hmac(payload, key) == [mac |-> payload, key |-> key]

\* jwt.sign({ userId }, JWT_SECRET, { expiresIn: '7d' })
generateToken(userId) ==
  LET payload == [userId |-> userId, iat |-> NowSec, exp |-> NowSec + JwtLifetimeSec]
  IN [t |-> "jwt", payload |-> payload, sig |-> hmac(payload, JWT_SECRET)]

\* jwt.verify inside try/catch: the payload, or null on a malformed token, a
\* signature that does not match, or an expiry that has been reached.
verifyToken(token) ==
  IF /\ token.t = "jwt"
     /\ token.sig = hmac(token.payload, JWT_SECRET)
     /\ NowSec < token.payload.exp
  THEN token.payload
  ELSE Null

\* What a client without the key can do to a token it holds: replace the
\* signature.
alterSignature(token) == [token EXCEPT !.sig = hmac(token.payload, "guessed-key")]

\* A token that a login handed out before this process started, to a user
\* registered one millisecond before the clock's origin: the key is the
\* same after a restart, the users array is empty again.
EarlierToken ==
  LET payload == [userId |-> ToString(-1), iat |-> 0, exp |-> JwtLifetimeSec]
  IN [t |-> "jwt", payload |-> payload, sig |-> hmac(payload, JWT_SECRET)]

\* The values a request's token cookie can take: none, text that is no
\* token, a token handed out before the restart, a token some login handed
\* out since, such a token with its signature altered.
CookieJar ==
  {Undefined, Str("garbage"), EarlierToken}
    \cup issued \cup {alterSignature(tk) : tk \in issued}

(***************************************************************************)
(* Responses.  last is what the latest step produced: the route, the       *)
(* request it answered, the status, the body and the stage of the          *)
(* middleware chain that wrote it (a login or logout adds the cookie).     *)
(***************************************************************************)
NoResponse == [route |-> "none", status |-> 0, by |-> "none"]

Response(route, req, status, body, by) ==
  [route |-> route, req |-> req, status |-> status, body |-> body, by |-> by]

\* The event loop runs one handler step at a time; a step starts when the
\* previous one has ended.
Idle == last = NoResponse

\* A handler that reached an await: no response yet.
Suspended(route, req) == [route |-> route, req |-> req, status |-> 0, by |-> "await"]

\* The handlers of one kind that are suspended at their await.
InFlight(kind) ==
  LET S == {h \in BagToSet(pending) : h.kind = kind}
  IN BagCardinality([h \in S |-> pending[h]])

Suspend(h) == pending' = pending (+) SetToBag({h})

Resume(h) == pending' = pending (-) SetToBag({h})

\* withoutPassword that copies every field.
withEveryField(u) == u

\* The object spread `{ password: _, ...rest }`.
withoutPassword(u) == [f \in DOMAIN u \ {"password"} |-> u[f]]

(***************************************************************************)
(* Middleware.                                                             *)
(***************************************************************************)
\* requireAuth with jwt.decode in place of jwt.verify: the payload is read
\* and neither the signature nor the expiry is checked.
requireAuthDecodeOnly(cookie) ==
  IF ~Truthy(cookie)
  THEN [next |-> FALSE, status |-> 401, body |-> [error |-> "Not authenticated"]]
  ELSE IF cookie.t # "jwt"
  THEN [next |-> FALSE, status |-> 401, body |-> [error |-> "Invalid token"]]
  ELSE LET user == findById(cookie.payload.userId) IN
    IF user = 0
    THEN [next |-> FALSE, status |-> 401, body |-> [error |-> "User not found"]]
    ELSE [next |-> TRUE, user |-> user]

\* Lines 70-88: the 401 response, or next() with req.user attached.
requireAuth(cookie) ==
  IF ~Truthy(cookie)
  THEN [next |-> FALSE, status |-> 401, body |-> [error |-> "Not authenticated"]]
  ELSE LET decoded == verifyToken(cookie) IN
    IF decoded = Null
    THEN [next |-> FALSE, status |-> 401, body |-> [error |-> "Invalid token"]]
    ELSE LET user == findById(decoded.userId) IN
      IF user = 0
      THEN [next |-> FALSE, status |-> 401, body |-> [error |-> "User not found"]]
      ELSE [next |-> TRUE, user |-> user]

\* requireTeacher comparing with 'teacher', a role no record carries.
requireTeacherWrongRole(user) ==
  IF users[user].role # "teacher"
  THEN [next |-> FALSE, status |-> 403, body |-> [error |-> "Teacher access required"]]
  ELSE [next |-> TRUE, user |-> user]

\* Lines 91-96.
requireTeacher(user) ==
  IF users[user].role # "admin"
  THEN [next |-> FALSE, status |-> 403, body |-> [error |-> "Teacher access required"]]
  ELSE [next |-> TRUE, user |-> user]

(***************************************************************************)
(* POST /api/auth/register                                                 *)
(***************************************************************************)
\* roleOf without the toUpperCase call.
roleOfCaseSensitive(access_code) ==
  IF Truthy(access_code) /\ startsWith(access_code.s, TEACHER)
  THEN "admin"
  ELSE "student"

\* Lines 139-142: the role of a new user.
roleOf(access_code) ==
  IF Truthy(access_code) /\ startsWith(toUpperCase(access_code.s), TEACHER)
  THEN "admin"
  ELSE "student"

\* Line 140 throws a TypeError when access_code is truthy and no string.
roleThrows(access_code) == Truthy(access_code) /\ access_code.t # "string"

\* Lines 144-154.
newUser(body) ==
  [id |-> DateNowString,
   name |-> body.name,
   email |-> body.email,
   password |-> bcryptHash(body.password),
   role |-> roleOf(body.access_code),
   aiUsageCount |-> 0,
   totalAIRequests |-> 0,
   createdAt |-> toISOString(now),
   lastActive |-> toISOString(now)]

\* Lines 124-126.
missingField(body) ==
  ~Truthy(body.name) \/ ~Truthy(body.email) \/ ~Truthy(body.password)

\* weakPassword with the limit off by one.
weakPasswordBelowFive(body) == Len(body.password.s) < 5

\* Lines 128-130.
weakPassword(body) == Len(body.password.s) < 6

\* emailTaken comparing the wrong field of the stored records.
emailTakenByName(body) == FirstIndex(users, LAMBDA u : u.name = body.email) # 0

\* Lines 132-135.
emailTaken(body) == findByEmail(body.email) # 0

\* Lines 120-137: from the request to the await of bcrypt.hash.
RegisterStart(body) ==
  /\ Idle
  /\ IF missingField(body)
     THEN /\ last' = Response("register", body, 400,
                       [error |-> "Name, email, and password are required"], "handler")
          /\ UNCHANGED pending
     ELSE IF weakPassword(body)
     THEN /\ last' = Response("register", body, 400,
                       [error |-> "Password must be at least 6 characters"], "handler")
          /\ UNCHANGED pending
     ELSE IF emailTaken(body)
     THEN /\ last' = Response("register", body, 400,
                       [error |-> "Email already registered"], "handler")
          /\ UNCHANGED pending
     ELSE /\ Len(users) + InFlight("register") < MaxUsers
          /\ Suspend([kind |-> "register", body |-> body])
          /\ last' = Suspended("register", body)
  /\ UNCHANGED <<users, aiUsageLog, now, issued, GEMINI_API_KEY>>

\* Lines 137-166: from the resolution of bcrypt.hash to the response.
RegisterFinish(h) ==
  /\ Idle
  /\ h.kind = "register"
  /\ Resume(h)
  /\ IF roleThrows(h.body.access_code)
     THEN /\ last' = Response("register", h.body, 500,
                       [error |-> "Registration failed"], "catch")
          /\ UNCHANGED users
     ELSE /\ users' = Append(users, newUser(h.body))
          /\ last' = Response("register", h.body, 201,
                       [success |-> TRUE,
                        message |-> "Registration successful! Please login."], "handler")
  /\ UNCHANGED <<aiUsageLog, now, issued, GEMINI_API_KEY>>

(***************************************************************************)
(* POST /api/auth/login, GET /api/auth/me, POST /api/auth/logout           *)
(***************************************************************************)
\* Lines 169-182: from the request to the await of bcrypt.compare, whose
\* arguments (the password and the stored hash) are read before the await.
LoginStart(body) ==
  /\ Idle
  /\ IF ~Truthy(body.email) \/ ~Truthy(body.password)
     THEN /\ last' = Response("login", body, 400,
                       [error |-> "Email and password are required"], "handler")
          /\ UNCHANGED pending
     ELSE IF findByEmail(body.email) = 0
     THEN /\ last' = Response("login", body, 401,
                       [error |-> "Invalid email or password"], "handler")
          /\ UNCHANGED pending
     ELSE /\ InFlight("login") + InFlight("remix") < MaxInflight
          /\ Cardinality(issued) + InFlight("login") < MaxTokens
          /\ Suspend([kind |-> "login", body |-> body,
                      user |-> findByEmail(body.email),
                      hash |-> users[findByEmail(body.email)].password])
          /\ last' = Suspended("login", body)
  /\ UNCHANGED <<users, aiUsageLog, now, issued, GEMINI_API_KEY>>

\* Lines 182-207: from the resolution of bcrypt.compare to the response.
LoginFinish(h) ==
  /\ Idle
  /\ h.kind = "login"
  /\ Resume(h)
  /\ IF ~bcryptCompare(h.body.password, h.hash)
     THEN /\ last' = Response("login", h.body, 401,
                       [error |-> "Invalid email or password"], "handler")
          /\ UNCHANGED <<users, issued>>
     ELSE /\ users' = [users EXCEPT ![h.user].lastActive = toISOString(now)]
          /\ issued' = issued \cup {generateToken(users[h.user].id)}
          /\ last' = [route |-> "login", req |-> h.body, status |-> 200,
                      body |-> [success |-> TRUE, user |-> withoutPassword(users'[h.user])],
                      by |-> "handler",
                      cookie |-> generateToken(users[h.user].id)]
  /\ UNCHANGED <<aiUsageLog, now, GEMINI_API_KEY>>

\* Lines 210-213.
Me(cookie) ==
  /\ Idle
  /\ LET auth == requireAuth(cookie) IN
       last' = IF ~auth.next
               THEN Response("me", [cookie |-> cookie], auth.status, auth.body, "requireAuth")
               ELSE Response("me", [cookie |-> cookie], 200,
                             withoutPassword(users[auth.user]), "handler")
  /\ UNCHANGED <<users, aiUsageLog, now, pending, issued, GEMINI_API_KEY>>

\* Logout behind requireAuth.
LogoutRequiresAuth(cookie) ==
  /\ Idle
  /\ LET auth == requireAuth(cookie) IN
       last' = IF ~auth.next
               THEN [route |-> "logout", req |-> [cookie |-> cookie], status |-> auth.status,
                     body |-> auth.body, by |-> "requireAuth", cookie |-> cookie]
               ELSE [route |-> "logout", req |-> [cookie |-> cookie], status |-> 200,
                     body |-> [message |-> "Logged out successfully"], by |-> "handler",
                     cookie |-> Undefined]
  /\ UNCHANGED <<users, aiUsageLog, now, pending, issued, GEMINI_API_KEY>>

\* Lines 215-219.
Logout(cookie) ==
  /\ Idle
  /\ last' = [route |-> "logout", req |-> [cookie |-> cookie], status |-> 200,
              body |-> [message |-> "Logged out successfully"], by |-> "handler",
              cookie |-> Undefined]
  /\ UNCHANGED <<users, aiUsageLog, now, pending, issued, GEMINI_API_KEY>>

(***************************************************************************)
(* Assignments (static) and GET /api/student/assignments                   *)
(***************************************************************************)
\* Lines 17-39.
assignments ==
  <<[id |-> Str("1"), name |-> "Essay: American History", deadline |-> "Tomorrow",
     aiAllowed |-> TRUE,
     description |-> "Write a 500-word essay on the American Revolution"],
    [id |-> Str("2"), name |-> "Math Problem Set", deadline |-> "2 days",
     aiAllowed |-> FALSE,
     description |-> "Complete problems 1-20 from Chapter 5"],
    [id |-> Str("3"), name |-> "Science Lab Report", deadline |-> "1 week",
     aiAllowed |-> TRUE,
     description |-> "Document your chemistry experiment findings"]>>

\* Lines 226-240; mock is the outcome of the Math.random() draws.
StudentAssignments(cookie, mock) ==
  /\ Idle
  /\ LET auth == requireAuth(cookie)
         req == [cookie |-> cookie]
     IN last' =
          IF ~auth.next
          THEN Response("student/assignments", req, auth.status, auth.body, "requireAuth")
          ELSE IF users[auth.user].role = "admin"
          THEN Response("student/assignments", req, 200, [assignments |-> <<>>], "handler")
          ELSE Response("student/assignments", req, 200,
                 [assignments |->
                    [i \in DOMAIN assignments |->
                       [id |-> assignments[i].id, name |-> assignments[i].name,
                        deadline |-> assignments[i].deadline,
                        aiAllowed |-> assignments[i].aiAllowed,
                        description |-> assignments[i].description,
                        status |-> IF mock[i] THEN "In Progress" ELSE "Not Started"]],
                  totalAssignments |-> Len(assignments)], "handler")
  /\ UNCHANGED <<users, aiUsageLog, now, pending, issued, GEMINI_API_KEY>>

(***************************************************************************)
(* POST /api/ai/remix                                                      *)
(***************************************************************************)
LogCap == 100
PreviewLen == 100

\* The whitespace String.prototype.trim removes (the ASCII part of it).
Whitespace == {" ", "\t", "\n", "\r"}

\* String.prototype.trim.
RECURSIVE trimStart(_)
trimStart(s) == IF s # <<>> /\ Head(s) \in Whitespace THEN trimStart(Tail(s)) ELSE s

RECURSIVE trimEnd(_)
trimEnd(s) ==
  IF s # <<>> /\ s[Len(s)] \in Whitespace THEN trimEnd(SubSeq(s, 1, Len(s) - 1)) ELSE s

trim(s) == trimEnd(trimStart(s))

\* String.prototype.substring(0, n).
substring0(s, n) == SubSeq(s, 1, IF Len(s) < n THEN Len(s) ELSE n)

\* Lines 267-286: the own keys of remixPrompts.
remixPromptKeys ==
  {"tweet", "linkedin", "instagram", "facebook", "reddit", "youtube", "tiktok",
   "pinterest", "summary", "bullets", "expand", "email", "ad", "blog", "story",
   "professional", "casual", "creative"}

\* The members every object literal inherits from Object.prototype.
objectPrototypeKeys ==
  {"constructor", "toString", "toLocaleString", "valueOf", "hasOwnProperty",
   "isPrototypeOf", "propertyIsEnumerable", "__proto__"}

\* Line 288: remixPrompts[remixType] || remixPrompts.professional.  The
\* template of a key is named by the key; an inherited member is truthy too.
promptFor(remixType) ==
  IF remixType.t = "string" /\ remixType.s \in remixPromptKeys
  THEN [template |-> remixType.s]
  ELSE IF remixType.t = "string" /\ remixType.s \in objectPrototypeKeys
  THEN [inherited |-> remixType.s]
  ELSE [template |-> "professional"]

\* policyBlocked with the negation of aiAllowed dropped.
policyBlockedInverted(assignmentId) ==
  /\ Truthy(assignmentId)
  /\ LET a == FirstIndex(assignments, LAMBDA x : x.id = assignmentId)
     IN a # 0 /\ assignments[a].aiAllowed

\* Lines 256-264: the assignment blocks the request.
policyBlocked(assignmentId) ==
  /\ Truthy(assignmentId)
  /\ LET a == FirstIndex(assignments, LAMBDA x : x.id = assignmentId)
     IN a # 0 /\ ~assignments[a].aiAllowed

\* The successful remixes so far: every one of them incremented one user's
\* aiUsageCount (line 334).
RECURSIVE usesOf(_)
usesOf(us) == IF us = <<>> THEN 0 ELSE Head(us).aiUsageCount + usesOf(Tail(us))

\* RemixCall with the assignment policy checked first and the content last.
RemixCallPolicyFirst(cookie, body, inflight, uses) ==
  /\ Idle
  /\ LET auth == requireAuth(cookie)
         req == [cookie |-> cookie, body |-> body]
     IN IF ~auth.next
        THEN /\ last' = Response("ai/remix", req, auth.status, auth.body, "requireAuth")
             /\ UNCHANGED pending
        ELSE IF policyBlocked(body.assignmentId)
        THEN /\ last' = Response("ai/remix", req, 403,
                          [error |-> "AI is not allowed for this assignment",
                           blocked |-> TRUE], "handler")
             /\ UNCHANGED pending
        ELSE IF ~Truthy(GEMINI_API_KEY)
        THEN /\ last' = Response("ai/remix", req, 500,
                          [error |-> "AI service not configured"], "handler")
             /\ UNCHANGED pending
        ELSE IF ~Truthy(body.content) \/ trim(body.content.s) = <<>>
        THEN /\ last' = Response("ai/remix", req, 400,
                          [error |-> "Content is required"], "handler")
             /\ UNCHANGED pending
        ELSE /\ InFlight("login") + InFlight("remix") < inflight
             /\ usesOf(users) + InFlight("remix") < uses
             /\ Suspend([kind |-> "remix", req |-> req, user |-> auth.user,
                         prompt |-> promptFor(body.remixType)])
             /\ last' = Suspended("ai/remix", req)
  /\ UNCHANGED <<users, aiUsageLog, now, issued, GEMINI_API_KEY>>

\* Lines 243-308: requireAuth, then from the handler's entry to the await of
\* axios.post.  The suspended record is the upstream call in flight.  The
\* exploration dispatches a call while fewer than inflight handlers are
\* suspended and fewer than uses calls have succeeded or are in flight.
RemixCall(cookie, body, inflight, uses) ==
  /\ Idle
  /\ LET auth == requireAuth(cookie)
         req == [cookie |-> cookie, body |-> body]
     IN IF ~auth.next
        THEN /\ last' = Response("ai/remix", req, auth.status, auth.body, "requireAuth")
             /\ UNCHANGED pending
        ELSE IF ~Truthy(body.content) \/ trim(body.content.s) = <<>>
        THEN /\ last' = Response("ai/remix", req, 400,
                          [error |-> "Content is required"], "handler")
             /\ UNCHANGED pending
        ELSE IF ~Truthy(GEMINI_API_KEY)
        THEN /\ last' = Response("ai/remix", req, 500,
                          [error |-> "AI service not configured"], "handler")
             /\ UNCHANGED pending
        ELSE IF policyBlocked(body.assignmentId)
        THEN /\ last' = Response("ai/remix", req, 403,
                          [error |-> "AI is not allowed for this assignment",
                           blocked |-> TRUE], "handler")
             /\ UNCHANGED pending
        ELSE /\ InFlight("login") + InFlight("remix") < inflight
             /\ usesOf(users) + InFlight("remix") < uses
             /\ Suspend([kind |-> "remix", req |-> req, user |-> auth.user,
                         prompt |-> promptFor(body.remixType)])
             /\ last' = Suspended("ai/remix", req)
  /\ UNCHANGED <<users, aiUsageLog, now, issued, GEMINI_API_KEY>>

RemixStart(cookie, body) == RemixCall(cookie, body, MaxInflight, MaxLog)

\* What the upstream call can resolve to: a response with candidates, a
\* response without, a candidate with no content, a timeout, another failure.
UpstreamOutcomes ==
  {[type |-> "response", candidates |-> <<[text |-> "Hello World."]>>],
   [type |-> "response", candidates |-> <<>>],
   [type |-> "response", candidates |-> <<[finishReason |-> "SAFETY"]>>],
   [type |-> "error", code |-> "ECONNABORTED"],
   [type |-> "error", code |-> "ERR_BAD_RESPONSE", data |-> "upstream error body"]}

\* Lines 314-325.
usageLog(h) ==
  [id |-> DateNowString,
   userId |-> users[h.user].id,
   userName |-> users[h.user].name,
   userEmail |-> users[h.user].email,
   remixType |-> h.req.body.remixType,
   assignmentId |-> IF Truthy(h.req.body.assignmentId) THEN h.req.body.assignmentId ELSE Null,
   originalContent |-> substring0(h.req.body.content.s, PreviewLen) \o <<".", ".", ".">>,
   contentLength |-> Len(h.req.body.content.s),
   timestamp |-> toISOString(now),
   timeAgo |-> "Just now"]

\* appendLog that lets the log grow to 101 entries before it evicts.
appendLogEvictsLate(log, entry) ==
  LET grown == <<entry>> \o log
  IN IF Len(grown) > LogCap + 1 THEN SubSeq(grown, 1, Len(grown) - 1) ELSE grown

\* Lines 326-331: unshift, then pop once the log is longer than 100.
appendLog(log, entry) ==
  LET grown == <<entry>> \o log
  IN IF Len(grown) > LogCap THEN SubSeq(grown, 1, Len(grown) - 1) ELSE grown

\* bumpUsage without the increment of aiUsageCount.
bumpUsageTotalOnly(u) ==
  [u EXCEPT !.totalAIRequests = u.totalAIRequests + 1,
            !.lastActive = toISOString(now)]

\* Lines 333-336.
bumpUsage(u) ==
  [u EXCEPT !.aiUsageCount = u.aiUsageCount + 1,
            !.totalAIRequests = u.totalAIRequests + 1,
            !.lastActive = toISOString(now)]

\* What line 311 throws on a candidate without content: a TypeError, which
\* has no code.
TypeErrorThrown == [type |-> "error", code |-> "undefined"]

\* remixCatch answering with what the upstream sent, when it sent something.
remixCatchForwards(req, error) ==
  IF error.code = "ECONNABORTED"
  THEN Response("ai/remix", req, 504,
         [error |-> "AI request timed out. Please try with shorter content."], "catch")
  ELSE Response("ai/remix", req, 500,
         [error |-> IF "data" \in DOMAIN error THEN error.data
                    ELSE "Failed to process AI request"], "catch")

\* remixCatch that writes no response for a timeout.
remixCatchSilentOnTimeout(req, error) ==
  IF error.code = "ECONNABORTED"
  THEN Suspended("ai/remix", req)
  ELSE Response("ai/remix", req, 500, [error |-> "Failed to process AI request"], "catch")

\* Lines 348-355: the catch block.
remixCatch(req, error) ==
  IF error.code = "ECONNABORTED"
  THEN Response("ai/remix", req, 504,
         [error |-> "AI request timed out. Please try with shorter content."], "catch")
  ELSE Response("ai/remix", req, 500, [error |-> "Failed to process AI request"], "catch")

\* RemixFinish with the user's statistics updated before the response is
\* inspected, so that a failed call counts too.
RemixFinishCountsFirst(h, outcome) ==
  /\ Idle
  /\ h.kind = "remix"
  /\ Resume(h)
  /\ users' = [users EXCEPT ![h.user] = bumpUsage(users[h.user])]
  /\ IF outcome.type = "error"
     THEN /\ last' = remixCatch(h.req, outcome)
          /\ UNCHANGED aiUsageLog
     ELSE IF Len(outcome.candidates) = 0
     THEN /\ last' = Response("ai/remix", h.req, 500,
                       [error |-> "No response from AI"], "handler")
          /\ UNCHANGED aiUsageLog
     ELSE IF "text" \notin DOMAIN outcome.candidates[1]
     THEN /\ last' = remixCatch(h.req, TypeErrorThrown)
          /\ UNCHANGED aiUsageLog
     ELSE /\ aiUsageLog' = appendLog(aiUsageLog, usageLog(h))
          /\ last' = Response("ai/remix", h.req, 200,
                       [success |-> TRUE, output |-> outcome.candidates[1].text,
                        usageCount |-> users'[h.user].aiUsageCount], "handler")
  /\ UNCHANGED <<now, issued, GEMINI_API_KEY>>

\* Lines 308-356: from the resolution of axios.post to the response.
RemixFinish(h, outcome) ==
  /\ Idle
  /\ h.kind = "remix"
  /\ Resume(h)
  /\ IF outcome.type = "error"
     THEN /\ last' = remixCatch(h.req, outcome)
          /\ UNCHANGED <<users, aiUsageLog>>
     ELSE IF Len(outcome.candidates) = 0
     THEN /\ last' = Response("ai/remix", h.req, 500,
                       [error |-> "No response from AI"], "handler")
          /\ UNCHANGED <<users, aiUsageLog>>
     ELSE IF "text" \notin DOMAIN outcome.candidates[1]
     THEN \* line 311 throws a TypeError
          /\ last' = remixCatch(h.req, TypeErrorThrown)
          /\ UNCHANGED <<users, aiUsageLog>>
     ELSE /\ aiUsageLog' = appendLog(aiUsageLog, usageLog(h))
          /\ users' = [users EXCEPT ![h.user] = bumpUsage(users[h.user])]
          /\ last' = Response("ai/remix", h.req, 200,
                       [success |-> TRUE, output |-> outcome.candidates[1].text,
                        usageCount |-> users'[h.user].aiUsageCount], "handler")
  /\ UNCHANGED <<now, issued, GEMINI_API_KEY>>

(***************************************************************************)
(* Teacher routes: requireAuth, requireTeacher, then the handler.          *)
(***************************************************************************)
ActiveWindowMs == 300000
RecentLogs == 20
TestLogs == 10

\* Array.prototype.slice(0, n).
slice0(seq, n) == SubSeq(seq, 1, IF Len(seq) < n THEN Len(seq) ELSE n)

\* Lines 370-383: the dashboard row of one student.
studentRow(u) ==
  LET userLogs == SelectSeq(aiUsageLog, LAMBDA log : log.userId = u.id)
  IN [id |-> u.id,
      name |-> u.name,
      email |-> u.email,
      aiUsageCount |-> u.aiUsageCount,
      totalRequests |-> u.totalAIRequests,
      lastActive |-> u.lastActive,
      isActive |-> IF userLogs = <<>> THEN Undefined
                   ELSE [t |-> "boolean",
                         b |-> now - parseDate(userLogs[1].timestamp) < ActiveWindowMs],
      recentActivity |-> IF userLogs = <<>> THEN [text |-> "No activity"]
                         ELSE [remixType |-> userLogs[1].remixType,
                               timeAgo |-> userLogs[1].timeAgo]]

\* studentRows without the filter on the role.
studentRowsAllUsers == [i \in DOMAIN users |-> studentRow(users[i])]

\* Lines 368-384.
studentRows ==
  LET studentUsers == SelectSeq(users, LAMBDA u : u.role = "student")
  IN [i \in DOMAIN studentUsers |-> studentRow(studentUsers[i])]

\* Number.prototype.toFixed(1) of a / b: the tenths, rounded half up.
toFixed1(a, b) == [t |-> "string", tenths |-> (20 * a + b) \div (2 * b)]

\* activityStats without the guard on the number of students: the division
\* by zero gives NaN or Infinity, which toFixed prints.
activityStatsUnguarded(rows, alerts) ==
  [totalStudents |-> Len(rows),
   activeNow |-> Len(SelectSeq(rows, LAMBDA s : s.isActive.t = "boolean" /\ s.isActive.b)),
   totalUsage |-> Len(aiUsageLog),
   averageUsage |-> IF Len(rows) > 0 THEN toFixed1(Len(aiUsageLog), Len(rows))
                    ELSE IF Len(aiUsageLog) = 0 THEN Str("NaN") ELSE Str("Infinity"),
   alertsToday |-> alerts]

\* Lines 387-389.
activityStats(rows, alerts) ==
  [totalStudents |-> Len(rows),
   activeNow |-> Len(SelectSeq(rows, LAMBDA s : s.isActive.t = "boolean" /\ s.isActive.b)),
   totalUsage |-> Len(aiUsageLog),
   averageUsage |-> IF Len(rows) > 0 THEN toFixed1(Len(aiUsageLog), Len(rows)) ELSE Num(0),
   alertsToday |-> alerts]

\* The two gates of a teacher route: the refusal, or next() with the user.
teacherGate(cookie) ==
  LET auth == requireAuth(cookie) IN
    IF ~auth.next
    THEN [next |-> FALSE, status |-> auth.status, body |-> auth.body, by |-> "requireAuth"]
    ELSE LET gate == requireTeacher(auth.user) IN
      IF ~gate.next
      THEN [next |-> FALSE, status |-> gate.status, body |-> gate.body, by |-> "requireTeacher"]
      ELSE [next |-> TRUE, user |-> auth.user]

\* Lines 363-404; alerts is the outcome of the Math.random() draw.
TeacherActivity(cookie, alerts) ==
  /\ Idle
  /\ LET gate == teacherGate(cookie)
         req == [cookie |-> cookie]
     IN last' =
          IF ~gate.next
          THEN Response("teacher/activity", req, gate.status, gate.body, gate.by)
          ELSE Response("teacher/activity", req, 200,
                 [success |-> TRUE,
                  stats |-> activityStats(studentRows, alerts),
                  recentActivity |-> slice0(aiUsageLog, RecentLogs),
                  students |-> studentRows,
                  timestamp |-> toISOString(now)], "handler")
  /\ UNCHANGED <<users, aiUsageLog, now, pending, issued, GEMINI_API_KEY>>

\* Lines 407-420.
TeacherStudents(cookie) ==
  /\ Idle
  /\ LET gate == teacherGate(cookie)
         req == [cookie |-> cookie]
         studentUsers == SelectSeq(users, LAMBDA u : u.role = "student")
         students == [i \in DOMAIN studentUsers |-> withoutPassword(studentUsers[i])]
     IN last' =
          IF ~gate.next
          THEN Response("teacher/students", req, gate.status, gate.body, gate.by)
          ELSE Response("teacher/students", req, 200,
                 [success |-> TRUE, students |-> students, count |-> Len(students)],
                 "handler")
  /\ UNCHANGED <<users, aiUsageLog, now, pending, issued, GEMINI_API_KEY>>

\* Lines 423-429.
TeacherAssignments(cookie) ==
  /\ Idle
  /\ LET gate == teacherGate(cookie)
         req == [cookie |-> cookie]
     IN last' =
          IF ~gate.next
          THEN Response("teacher/assignments", req, gate.status, gate.body, gate.by)
          ELSE Response("teacher/assignments", req, 200,
                 [success |-> TRUE, assignments |-> assignments,
                  count |-> Len(assignments)], "handler")
  /\ UNCHANGED <<users, aiUsageLog, now, pending, issued, GEMINI_API_KEY>>

(***************************************************************************)
(* Debug endpoints.                                                        *)
(***************************************************************************)
\* Lines 435-441.
TestUsers ==
  /\ Idle
  /\ last' = Response("test/users", Undefined, 200,
               [count |-> Len(users),
                users |-> [i \in DOMAIN users |-> withoutPassword(users[i])]], "handler")
  /\ UNCHANGED <<users, aiUsageLog, now, pending, issued, GEMINI_API_KEY>>

\* Lines 443-448.
TestLogsRoute ==
  /\ Idle
  /\ last' = Response("test/logs", Undefined, 200,
               [count |-> Len(aiUsageLog), logs |-> slice0(aiUsageLog, TestLogs)],
               "handler")
  /\ UNCHANGED <<users, aiUsageLog, now, pending, issued, GEMINI_API_KEY>>

(***************************************************************************)
(* The clock advances between steps.                                       *)
(***************************************************************************)
TickMs ==
  /\ Idle
  /\ now % WeekMs < MaxMs
  /\ now' = now + 1
  /\ UNCHANGED last
  /\ UNCHANGED <<users, aiUsageLog, pending, issued, GEMINI_API_KEY>>

TickWeek ==
  /\ Idle
  /\ now \div WeekMs < MaxWeeks
  /\ now' = now + WeekMs
  /\ UNCHANGED last
  /\ UNCHANGED <<users, aiUsageLog, pending, issued, GEMINI_API_KEY>>

\* The step ends: its response has been written, or its handler is suspended.
TurnEnds ==
  /\ ~Idle
  /\ last' = NoResponse
  /\ UNCHANGED <<users, aiUsageLog, now, pending, issued, GEMINI_API_KEY>>

(***************************************************************************)
(* The state after the module is loaded (lines 12-16): empty stores; the   *)
(* provider key is whatever the environment holds.                         *)
(***************************************************************************)
Init ==
  /\ users = <<>>
  /\ aiUsageLog = <<>>
  /\ now = 0
  /\ pending = EmptyBag
  /\ issued = {}
  /\ last = NoResponse
  /\ GEMINI_API_KEY \in {Undefined, Str("key")}

(***************************************************************************)
(* Request inputs.                                                         *)
(***************************************************************************)
Ann == Str("Ann")
EmailLower == Str("a@x.com")
EmailUpper == Str("A@x.com")
GoodPassword == Str("secret1")
ShortPassword == Str("12345")
SixPassword == Str("123456")
TeacherCode == Str(<<"T","E","A","C","H","E","R","1">>)

StudentBody ==
  [name |-> Ann, email |-> EmailLower, password |-> GoodPassword, access_code |-> Undefined]

TeacherBody ==
  [name |-> Ann, email |-> EmailUpper, password |-> GoodPassword, access_code |-> TeacherCode]

\* Registration requests: every field present or absent, two emails that
\* differ in case only, a password below, at and above the minimum length.
RegisterBodies ==
  [name : {Undefined, Ann}, email : {Undefined, EmailLower, EmailUpper},
   password : {Undefined, ShortPassword, SixPassword, GoodPassword},
   access_code : {Undefined}]

\* Access codes: absent, empty, the documented code, lower and mixed case,
\* a longer word with the prefix, a shorter prefix, the word not at the
\* start, another word, and a number.
AccessCodes ==
  {Undefined,
   Str(<<>>),
   Str(<<"T","E","A","C","H","E","R","1","2","3">>),
   Str(<<"t","e","a","c","h","e","r","1","2","3">>),
   Str(<<"T","e","A","c","H","e","R">>),
   Str(<<"T","E","A","C","H","E","R","L","E","S","S">>),
   Str(<<"T","E","A","C","H","E">>),
   Str(<<"X","T","E","A","C","H","E","R">>),
   Str(<<"S","T","U","D","E","N","T">>),
   Num(5)}

RoleBodies ==
  [name : {Ann}, email : {EmailLower, EmailUpper}, password : {GoodPassword},
   access_code : AccessCodes]

LoginBodies ==
  {[email |-> EmailLower, password |-> GoodPassword],
   [email |-> EmailUpper, password |-> GoodPassword],
   [email |-> EmailLower, password |-> ShortPassword]}

Hi == Str(<<"h","i">>)
Blank == Str(<<" ","\t">>)

\* Remix requests: content absent, blank or present; no assignment, an
\* assignment that allows AI, the one that forbids it, and its id sent as a
\* number.
RemixBodies ==
  [content : {Undefined, Blank, Hi}, remixType : {Str("summary")},
   assignmentId : {Undefined, Str("1"), Str("2"), Num(2)}]

MockDraws == {[i \in DOMAIN assignments |-> b] : b \in BOOLEAN}

AlertDraws == {0, 4}

(***************************************************************************)
(* The whole system.                                                       *)
(***************************************************************************)
Next ==
  \/ \E body \in {StudentBody, TeacherBody} : RegisterStart(body)
  \/ \E h \in BagToSet(pending) : RegisterFinish(h)
  \/ \E body \in LoginBodies : LoginStart(body)
  \/ \E h \in BagToSet(pending) : LoginFinish(h)
  \/ \E cookie \in CookieJar : Me(cookie)
  \/ \E cookie \in CookieJar : Logout(cookie)
  \/ \E cookie \in CookieJar, mock \in MockDraws : StudentAssignments(cookie, mock)
  \/ \E cookie \in CookieJar : RemixStart(cookie, [content |-> Hi, remixType |-> Str("summary"), assignmentId |-> Undefined])
  \/ \E h \in BagToSet(pending), outcome \in UpstreamOutcomes : RemixFinish(h, outcome)
  \/ \E cookie \in CookieJar, alerts \in AlertDraws : TeacherActivity(cookie, alerts)
  \/ \E cookie \in CookieJar : TeacherStudents(cookie)
  \/ \E cookie \in CookieJar : TeacherAssignments(cookie)
  \/ TestUsers
  \/ TestLogsRoute
  \/ TickMs
  \/ TickWeek
  \/ TurnEnds

Spec == Init /\ [][Next]_vars

(***************************************************************************)
(* Registration alone, with every kind of request body.                    *)
(***************************************************************************)
NextRegister ==
  \/ \E body \in RegisterBodies : RegisterStart(body)
  \/ \E h \in BagToSet(pending) : RegisterFinish(h)
  \/ TickMs
  \/ TurnEnds

SpecRegister == Init /\ [][NextRegister]_vars

(***************************************************************************)
(* Registration with every kind of access code.                            *)
(***************************************************************************)
NextRole ==
  \/ \E body \in RoleBodies : RegisterStart(body)
  \/ \E h \in BagToSet(pending) : RegisterFinish(h)
  \/ TurnEnds

SpecRole == Init /\ [][NextRole]_vars

(***************************************************************************)
(* Sessions and the gated routes: a student and a teacher register and log *)
(* in, and any cookie is presented to any gated route.                     *)
(***************************************************************************)
NextAuth ==
  \/ \E body \in {StudentBody, TeacherBody} : RegisterStart(body)
  \/ \E h \in BagToSet(pending) : RegisterFinish(h)
  \/ \E body \in LoginBodies : LoginStart(body)
  \/ \E h \in BagToSet(pending) : LoginFinish(h)
  \/ \E cookie \in CookieJar : Me(cookie)
  \/ \E cookie \in CookieJar, mock \in MockDraws : StudentAssignments(cookie, mock)
  \/ \E cookie \in CookieJar : RemixStart(cookie, [content |-> Hi, remixType |-> Str("summary"), assignmentId |-> Undefined])
  \/ \E h \in BagToSet(pending), outcome \in UpstreamOutcomes : RemixFinish(h, outcome)
  \/ \E cookie \in CookieJar, alerts \in AlertDraws : TeacherActivity(cookie, alerts)
  \/ \E cookie \in CookieJar : TeacherStudents(cookie)
  \/ \E cookie \in CookieJar : TeacherAssignments(cookie)
  \/ TickWeek
  \/ TurnEnds

SpecAuth == Init /\ [][NextAuth]_vars

(***************************************************************************)
(* The remix handler with every kind of request body.                      *)
(***************************************************************************)
NextRemix ==
  \/ RegisterStart(StudentBody)
  \/ \E h \in BagToSet(pending) : RegisterFinish(h)
  \/ LoginStart([email |-> EmailLower, password |-> GoodPassword])
  \/ \E h \in BagToSet(pending) : LoginFinish(h)
  \/ \E cookie \in CookieJar, body \in RemixBodies : RemixStart(cookie, body)
  \/ \E h \in BagToSet(pending), outcome \in UpstreamOutcomes : RemixFinish(h, outcome)
  \/ TickMs
  \/ TurnEnds

SpecRemix == Init /\ [][NextRemix]_vars

(***************************************************************************)
(* Overlapping remixes of one user: several upstream calls are in flight   *)
(* at once and complete in any order.                                      *)
(***************************************************************************)
PlainRemix == [content |-> Hi, remixType |-> Str("summary"), assignmentId |-> Undefined]

NextUsage ==
  \/ RegisterStart(StudentBody)
  \/ \E h \in BagToSet(pending) : RegisterFinish(h)
  \/ LoginStart([email |-> EmailLower, password |-> GoodPassword])
  \/ \E h \in BagToSet(pending) : LoginFinish(h)
  \/ \E cookie \in issued : RemixCall(cookie, PlainRemix, MaxOverlap, MaxUses)
  \/ \E h \in BagToSet(pending), outcome \in UpstreamOutcomes : RemixFinish(h, outcome)
  \/ TurnEnds

SpecUsage == Init /\ [][NextUsage]_vars

(***************************************************************************)
(* The usage log at its capacity.  The exploration starts in a state the   *)
(* server is in after one student registered at time 0, completed k        *)
(* remixes of the content "hi", one per millisecond from time 1 to time k, *)
(* and logged in again at time k + 1, for k one below and at the capacity; *)
(* from there the student sends further remixes.                           *)
(***************************************************************************)
LedgerFills == {LogCap - 1, LogCap}

\* The entry line 314 built for the remix completed at time t.
pastEntry(t) ==
  [id |-> ToString(t),
   userId |-> ToString(0),
   userName |-> Ann,
   userEmail |-> EmailLower,
   remixType |-> Str("summary"),
   assignmentId |-> Null,
   originalContent |-> substring0(Hi.s, PreviewLen) \o <<".", ".", ".">>,
   contentLength |-> Len(Hi.s),
   timestamp |-> toISOString(t),
   timeAgo |-> "Just now"]

InitLedger ==
  \E k \in LedgerFills :
    /\ now = k + 1
    /\ users = <<[id |-> ToString(0),
                  name |-> Ann,
                  email |-> EmailLower,
                  password |-> bcryptHash(GoodPassword),
                  role |-> "student",
                  aiUsageCount |-> k,
                  totalAIRequests |-> k,
                  createdAt |-> toISOString(0),
                  lastActive |-> toISOString(k + 1)]>>
    /\ aiUsageLog = [p \in 1..k |-> pastEntry(k + 1 - p)]
    /\ pending = EmptyBag
    /\ issued = {generateToken(ToString(0))}
    /\ last = NoResponse
    /\ GEMINI_API_KEY = Str("key")

Hey == Str(<<"h","e","y">>)

LedgerBodies ==
  [content : {Hi, Hey}, remixType : {Str("summary")}, assignmentId : {Undefined}]

NextLedger ==
  \/ \E cookie \in issued, body \in LedgerBodies :
       RemixCall(cookie, body, MaxOverlap, LogCap + MaxAppends)
  \/ \E h \in BagToSet(pending), outcome \in UpstreamOutcomes : RemixFinish(h, outcome)
  \/ TurnEnds

SpecLedger == InitLedger /\ [][NextLedger]_vars

(***************************************************************************)
(* The routes that return user records.                                    *)
(***************************************************************************)
NextRecords ==
  \/ \E body \in {StudentBody, TeacherBody} : RegisterStart(body)
  \/ \E h \in BagToSet(pending) : RegisterFinish(h)
  \/ \E body \in LoginBodies : LoginStart(body)
  \/ \E h \in BagToSet(pending) : LoginFinish(h)
  \/ \E cookie \in CookieJar : Me(cookie)
  \/ \E cookie \in CookieJar, alerts \in AlertDraws : TeacherActivity(cookie, alerts)
  \/ \E cookie \in CookieJar : TeacherStudents(cookie)
  \/ TestUsers
  \/ TurnEnds

SpecRecords == Init /\ [][NextRecords]_vars

(***************************************************************************)
(* Progress of the remix handler.  The promise of axios.post settles: the  *)
(* upstream answers or fails, or the timeout of 120000 ms (line 306)       *)
(* rejects it; the event loop then runs the rest of the handler, between   *)
(* the steps of other requests.  A step, once started, runs to its end.    *)
(***************************************************************************)
\* The token of the login of the user registered at time 0.
FirstToken == 
  LET payload == [userId |-> ToString(0), iat |-> 0, exp |-> JwtLifetimeSec]
  IN [t |-> "jwt", payload |-> payload, sig |-> hmac(payload, JWT_SECRET)]

\* The upstream calls that user can have in flight.
PendingRemixes ==
  {[kind |-> "remix", req |-> [cookie |-> FirstToken, body |-> body], user |-> 1,
    prompt |-> promptFor(body.remixType)] : body \in LedgerBodies}

NextLive ==
  \/ RegisterStart(StudentBody)
  \/ \E h \in BagToSet(pending) : RegisterFinish(h)
  \/ LoginStart([email |-> EmailLower, password |-> GoodPassword])
  \/ \E h \in BagToSet(pending) : LoginFinish(h)
  \/ \E cookie \in issued : Me(cookie)
  \/ \E cookie \in issued, body \in LedgerBodies :
       RemixCall(cookie, body, MaxOverlap, MaxUses)
  \/ \E h \in BagToSet(pending), outcome \in UpstreamOutcomes : RemixFinish(h, outcome)
  \/ TurnEnds

SpecLive ==
  /\ Init
  /\ [][NextLive]_vars
  /\ WF_vars(TurnEnds)
  /\ \A h \in PendingRemixes :
       SF_vars(BagIn(h, pending) /\ \E outcome \in UpstreamOutcomes : RemixFinish(h, outcome))

(***************************************************************************)
(* The remix handler with every kind of remixType: absent, each key of     *)
(* remixPrompts, a word that is no key, two names every object inherits,   *)
(* and a number.                                                           *)
(***************************************************************************)
RemixTypes ==
  {Undefined, Str("haiku"), Str("constructor"), Str("toString"), Num(7)}
    \cup {Str(key) : key \in remixPromptKeys}

TemplateBodies ==
  [content : {Hi}, remixType : RemixTypes, assignmentId : {Undefined}]

NextTemplate ==
  \/ RegisterStart(StudentBody)
  \/ \E h \in BagToSet(pending) : RegisterFinish(h)
  \/ LoginStart([email |-> EmailLower, password |-> GoodPassword])
  \/ \E h \in BagToSet(pending) : LoginFinish(h)
  \/ \E cookie \in issued, body \in TemplateBodies : RemixStart(cookie, body)
  \/ \E h \in BagToSet(pending), outcome \in UpstreamOutcomes : RemixFinish(h, outcome)
  \/ TurnEnds

SpecTemplate == Init /\ [][NextTemplate]_vars

(***************************************************************************)
(* Sessions: login, logout with any cookie, and the use of any cookie      *)
(* before and after, while the clock passes the tokens' expiry.            *)
(***************************************************************************)
NextSession ==
  \/ RegisterStart(StudentBody)
  \/ \E h \in BagToSet(pending) : RegisterFinish(h)
  \/ \E body \in LoginBodies : LoginStart(body)
  \/ \E h \in BagToSet(pending) : LoginFinish(h)
  \/ \E cookie \in CookieJar : Logout(cookie)
  \/ \E cookie \in CookieJar : Me(cookie)
  \/ TickWeek
  \/ TurnEnds

SpecSession == Init /\ [][NextSession]_vars

(***************************************************************************)
(* Properties.  A step is a call of a route when it leaves that route in   *)
(* last and resumes no suspended handler.                                  *)
(***************************************************************************)
CallOf(route) ==
  /\ last'.route = route
  /\ BagCardinality(pending') >= BagCardinality(pending)

\* A request body whose three required fields are present.
FieldsPresent(body) ==
  /\ body.name # Undefined /\ body.name # Str("")
  /\ body.email # Undefined /\ body.email # Str("")
  /\ body.password # Undefined /\ body.password # Str("")

InStore(email) == \E i \in DOMAIN users : users[i].email = email

RegisterRefusal(text) ==
  /\ last'.status = 400
  /\ last'.body = [error |-> text]
  /\ users' = users
  /\ pending' = pending

\* C1: in every reachable state no two user records have the same email,
\* also when register handlers for one email overlap at the hashing step.
C1_EmailsUnique ==
  \A i, j \in DOMAIN users : i # j => users[i].email # users[j].email

\* C2: a register call whose email is in the store (exact match) and whose
\* fields are otherwise valid ends with status 400 "Email already
\* registered", adds no user and leaves every stored record as it was.
C2_DuplicateRefused ==
  [][(/\ CallOf("register")
      /\ FieldsPresent(last'.req)
      /\ Len(last'.req.password.s) >= 6
      /\ InStore(last'.req.email))
       => RegisterRefusal("Email already registered")]_vars

\* A second registration of a stored email has just been refused, and the
\* first record is in the store.
C2_Witness ==
  /\ last.route = "register"
  /\ last.status = 400
  /\ last.body = [error |-> "Email already registered"]
  /\ last.req.password = GoodPassword
  /\ \E i \in DOMAIN users : users[i].email = last.req.email

\* C3: in every reachable state no two user records have the same id.
C3_IdsUnique ==
  \A i, j \in DOMAIN users : i # j => users[i].id # users[j].id

GatedRoutes ==
  {"me", "student/assignments", "ai/remix",
   "teacher/activity", "teacher/students", "teacher/assignments"}

TeacherRoutes == {"teacher/activity", "teacher/students", "teacher/assignments"}

\* The server signed this token: a login handed it out, now or before the
\* restart.
Genuine(c) == c \in issued \cup {EarlierToken}

\* The token's expiry lies ahead.
Unexpired(c) == now < c.payload.exp * 1000

\* The cookie is a token that verifies and names a stored user.
Authenticates(c) ==
  /\ Genuine(c)
  /\ Unexpired(c)
  /\ \E i \in DOMAIN users : users[i].id = c.payload.userId

\* The record requireAuth attaches for a token: the first with its user id.
Attached(c) ==
  users[CHOOSE i \in DOMAIN users :
          /\ users[i].id = c.payload.userId
          /\ \A j \in 1..(i - 1) : users[j].id # c.payload.userId]

\* C4: the token a login issues for user U resolves, through verifyToken and
\* requireAuth, to exactly U's record; a token whose signature is altered or
\* whose age exceeds 7 days verifies to null.
C4_TokenResolvesToItsUser ==
  /\ (last.route = "login" /\ last.status = 200) =>
       LET auth == requireAuth(last.cookie)
       IN auth.next /\ withoutPassword(users[auth.user]) = last.body.user
  /\ \A tk \in issued :
       /\ verifyToken(alterSignature(tk)) = Null
       /\ now > tk.payload.iat * 1000 + WeekMs => verifyToken(tk) = Null

\* C5: a call of a gated route gets past requireAuth exactly when its cookie
\* is a token that verifies and names a stored user; otherwise it ends with
\* status 401 written by requireAuth, and users, the usage log and the
\* upstream calls in flight are unchanged.
C5_GateBeforeHandler ==
  [][(\E r \in GatedRoutes : CallOf(r)) =>
       IF Authenticates(last'.req.cookie)
       THEN last'.by # "requireAuth"
       ELSE /\ last'.status = 401
            /\ last'.by = "requireAuth"
            /\ users' = users
            /\ aiUsageLog' = aiUsageLog
            /\ pending' = pending]_vars

\* A token a login issued has expired and the remix route refused it.
C5_Witness ==
  /\ last.route = "ai/remix"
  /\ last.status = 401
  /\ last.by = "requireAuth"
  /\ last.req.cookie \in issued

\* C6: every refusal written by requireAuth is the same response, status
\* 401 with the body of the missing-token case, whatever the cause.
C6_SameRefusal ==
  last.by = "requireAuth" =>
    last.status = 401 /\ last.body = [error |-> "Not authenticated"]

\* C7: a teacher route answers 200 with its data only when the request
\* authenticates and the attached user's role is admin; when it
\* authenticates with another role, requireTeacher ends it with status 403
\* and no data; when it does not authenticate the status is 401.
C7_TeacherGate ==
  last.route \in TeacherRoutes =>
    IF ~Authenticates(last.req.cookie)
    THEN last.status = 401
    ELSE IF Attached(last.req.cookie).role = "admin"
    THEN last.status = 200 /\ last.by = "handler" /\ last.body.success
    ELSE /\ last.status = 403
         /\ last.by = "requireTeacher"
         /\ last.body = [error |-> "Teacher access required"]

\* A logged-in student asked for the activity view and got 403.
C7_Witness ==
  /\ last.route = "teacher/activity"
  /\ last.status = 403
  /\ last.req.cookie \in issued
  /\ Attached(last.req.cookie).role = "student"

teacherLower == <<"t","e","a","c","h","e","r">>

\* The code is a string whose first seven characters spell TEACHER in any
\* mix of cases.
TeacherPrefixed(code) ==
  /\ code.t = "string"
  /\ Len(code.s) >= Len(TEACHER)
  /\ \A i \in DOMAIN TEACHER : code.s[i] \in {TEACHER[i], teacherLower[i]}

\* C8: on a successful registration the stored role is admin if and only if
\* an access code is present and its upper-cased form begins with TEACHER;
\* otherwise it is student.
C8_RoleByAccessCode ==
  (last.route = "register" /\ last.status = 201) =>
    /\ users[Len(users)].email = last.req.email
    /\ users[Len(users)].role =
         IF TeacherPrefixed(last.req.access_code) THEN "admin" ELSE "student"

\* A registration with the code TEACHERLESS has stored an admin.
C8_Witness ==
  /\ last.route = "register"
  /\ last.status = 201
  /\ last.req.access_code = Str(<<"T","E","A","C","H","E","R","L","E","S","S">>)
  /\ users[Len(users)].role = "admin"

\* C9: a register call with name, email or password absent ends with status
\* 400 and adds no user; one with a password shorter than 6 characters
\* likewise; both before the duplicate check, so the validation error is
\* reported for a stored email too.  A request goes on to the hash, and a
\* record is added, only when all three checks passed.
C9_ValidationFirst ==
  [][/\ CallOf("register") =>
          /\ ~FieldsPresent(last'.req) =>
               RegisterRefusal("Name, email, and password are required")
          /\ (FieldsPresent(last'.req) /\ Len(last'.req.password.s) < 6) =>
               RegisterRefusal("Password must be at least 6 characters")
          /\ pending' # pending =>
               /\ FieldsPresent(last'.req)
               /\ Len(last'.req.password.s) >= 6
               /\ ~InStore(last'.req.email)
     /\ users' # users =>
          \E h \in BagToSet(pending) :
            /\ h.kind = "register"
            /\ FieldsPresent(h.body)
            /\ Len(h.body.password.s) >= 6
            /\ Len(users') = Len(users) + 1
            /\ SubSeq(users', 1, Len(users)) = users
            /\ users'[Len(users')].email = h.body.email]_vars

\* A request with a short password and a stored email got the password error.
C9_Witness ==
  /\ last.route = "register"
  /\ last.status = 400
  /\ last.body = [error |-> "Password must be at least 6 characters"]
  /\ \E i \in DOMAIN users : users[i].email = last.req.email

\* The content has a character that trim keeps.
HasText(content) ==
  /\ content.t = "string"
  /\ \E i \in DOMAIN content.s : content.s[i] \notin {" ", "\t", "\n", "\r"}

\* The id is that of a known assignment with aiAllowed = false.
ForbidsAI(assignmentId) ==
  \E i \in DOMAIN assignments :
    assignments[i].id = assignmentId /\ ~assignments[i].aiAllowed

\* C10: with the provider key configured, an authenticated remix call with
\* non-empty content for an assignment that forbids AI ends with status 403
\* and the blocked flag, dispatches no upstream call, and changes neither
\* the usage log nor any user record; no upstream call in flight and no log
\* entry is ever for such an assignment.
C10_BlockedBeforeUpstream ==
  [][/\ (/\ CallOf("ai/remix")
         /\ Authenticates(last'.req.cookie)
         /\ HasText(last'.req.body.content)
         /\ GEMINI_API_KEY = Str("key")
         /\ ForbidsAI(last'.req.body.assignmentId))
          => /\ last'.status = 403
             /\ last'.body.blocked
             /\ pending' = pending
             /\ aiUsageLog' = aiUsageLog
             /\ users' = users
     /\ \A h \in BagToSet(pending') :
          h.kind = "remix" => ~ForbidsAI(h.req.body.assignmentId)
     /\ \A i \in DOMAIN aiUsageLog' : ~ForbidsAI(aiUsageLog'[i].assignmentId)]_vars

\* A logged-in user's remix for assignment 2 was blocked while the log
\* already holds an entry of that user.
C10_Witness ==
  /\ last.route = "ai/remix"
  /\ last.status = 403
  /\ last.req.cookie \in issued
  /\ last.req.body.assignmentId = Str("2")
  /\ aiUsageLog # <<>>

\* Some user's aiUsageCount or totalAIRequests differs after the step.
CountersChange ==
  \E i \in DOMAIN users :
    \/ users'[i].aiUsageCount # users[i].aiUsageCount
    \/ users'[i].totalAIRequests # users[i].totalAIRequests

\* C11: a step of the remix route that does not answer 200 (a refusal by a
\* check, a dispatch, or an upstream call that ended without candidates,
\* with a malformed candidate, by timeout or by another failure) leaves the
\* usage log and every user record unchanged; the log and the counters
\* change only in a step that answers a remix with 200 and the generated
\* text.
C11_FailureLeavesNoTrace ==
  [][/\ (last'.route = "ai/remix" /\ last'.status # 200) =>
          aiUsageLog' = aiUsageLog /\ users' = users
     /\ (aiUsageLog' # aiUsageLog \/ CountersChange) =>
          /\ last'.route = "ai/remix"
          /\ last'.status = 200
          /\ last'.body.output = "Hello World."]_vars

\* An upstream call was dispatched and timed out.
C11_Witness ==
  /\ last.route = "ai/remix"
  /\ last.status = 504
  /\ last.by = "catch"
  /\ aiUsageLog = <<>>
  /\ \A i \in DOMAIN users : users[i].aiUsageCount = 0

\* C12: a remix that answers 200 increases the aiUsageCount and the
\* totalAIRequests of the requesting user by exactly 1, changes no other
\* user's counters, and returns the new aiUsageCount; with several remixes
\* of the user in flight at once no increment is lost: in every state the
\* counts add up to the number of remixes that succeeded, which is the
\* number of entries logged.
C12_NoLostIncrement ==
  [][/\ (last'.route = "ai/remix" /\ last'.status = 200) =>
          LET u == CHOOSE i \in DOMAIN users :
                     /\ users[i].id = last'.req.cookie.payload.userId
                     /\ \A j \in 1..(i - 1) : users[j].id # users[i].id
          IN /\ users'[u].aiUsageCount = users[u].aiUsageCount + 1
             /\ users'[u].totalAIRequests = users[u].totalAIRequests + 1
             /\ last'.body.usageCount = users[u].aiUsageCount + 1
             /\ \A i \in DOMAIN users \ {u} :
                  /\ users'[i].aiUsageCount = users[i].aiUsageCount
                  /\ users'[i].totalAIRequests = users[i].totalAIRequests
             /\ Len(aiUsageLog') = Len(aiUsageLog) + 1
     /\ \A i \in DOMAIN users' :
          /\ users'[i].aiUsageCount = users'[i].totalAIRequests
          /\ users'[i].aiUsageCount =
               Len(SelectSeq(aiUsageLog', LAMBDA e : e.userId = users'[i].id))
                 * (IF \E j \in 1..(i - 1) : users'[j].id = users'[i].id THEN 0 ELSE 1)]_vars

\* The first of two overlapping remixes succeeded and returned 1 while the
\* other upstream call is still in flight.
C12_Witness ==
  /\ last.route = "ai/remix"
  /\ last.status = 200
  /\ last.body.usageCount = 1
  /\ InFlight("remix") = 1

\* C13: the usage log never holds more than 100 entries, in the state
\* before and the state after any step; a step that changes it puts the
\* entry of the remix it answers at the head and keeps the previous
\* entries in their order behind it, all of them while they were fewer than
\* 100 and all but the last (the oldest) otherwise; the entries are in
\* most-recent-first order.
C13_LedgerBounded ==
  [][/\ Len(aiUsageLog) <= LogCap
     /\ Len(aiUsageLog') <= LogCap
     /\ aiUsageLog' # aiUsageLog =>
          /\ aiUsageLog'[1].id = ToString(now)
          /\ aiUsageLog'[1].contentLength = Len(last'.req.body.content.s)
          /\ Tail(aiUsageLog') =
               IF Len(aiUsageLog) < LogCap
               THEN aiUsageLog
               ELSE SubSeq(aiUsageLog, 1, LogCap - 1)
     /\ \A p, q \in DOMAIN aiUsageLog' :
          p < q => aiUsageLog'[p].timestamp.iso >= aiUsageLog'[q].timestamp.iso]_vars

\* The log was full with the entries of times 1 to 100; two more remixes
\* succeeded: it holds 100 entries, the two new ones first, and the oldest
\* left is the entry of time 3.
C13_Witness ==
  /\ last.route = "ai/remix"
  /\ last.status = 200
  /\ last.body.usageCount = LogCap + 2
  /\ Len(aiUsageLog) = LogCap
  /\ aiUsageLog[1].timestamp.iso = LogCap + 1
  /\ aiUsageLog[2].timestamp.iso = LogCap + 1
  /\ aiUsageLog[LogCap].timestamp.iso = 3

\* What the claim expects of the response to request req of a remix whose
\* upstream call resolved to outcome o.
OutcomeExpected(o, resp) ==
  /\ resp.route = "ai/remix"
  /\ CASE o.type = "response" /\ o.candidates # <<>> /\ "text" \in DOMAIN o.candidates[1] ->
            /\ resp.status = 200
            /\ resp.body.output = o.candidates[1].text
       [] o.type = "response" /\ o.candidates = <<>> ->
            /\ resp.status = 500
            /\ resp.body = [error |-> "No response from AI"]
       [] o.type = "error" /\ o.code = "ECONNABORTED" ->
            /\ resp.status = 504
            /\ DOMAIN resp.body = {"error"}
            /\ resp.body.error # "Failed to process AI request"
       [] OTHER ->
            /\ resp.status = 500
            /\ resp.body = [error |-> "Failed to process AI request"]
  /\ resp.status # 200 =>
       \A f \in DOMAIN resp.body : "data" \in DOMAIN o => resp.body[f] # o.data

\* C14: when the upstream call of a dispatched remix resolves, the outcome
\* decides the response: a response whose first candidate carries text
\* gives 200 with that text; a response with zero candidates gives 500 "No
\* response from AI"; a timeout gives 504; any other failure, a candidate
\* without content included, gives 500 with the generic message; and no
\* failure response contains the upstream error body.
C14_OutcomeDecides ==
  [][\A h \in BagToSet(pending), o \in UpstreamOutcomes :
       RemixFinish(h, o) => last'.req = h.req /\ OutcomeExpected(o, last')]_vars

\* The upstream call of a logged-in user's remix failed and the caller got
\* the generic message.
C14_Witness ==
  /\ last.route = "ai/remix"
  /\ last.status = 500
  /\ last.by = "catch"
  /\ last.body = [error |-> "Failed to process AI request"]
  /\ last.req.cookie \in issued

\* The positions in users of the records whose role is student.
StudentIndexes == {i \in DOMAIN users : users[i].role = "student"}

\* C15: in a 200 response of the teacher activity view the students array
\* has one row for every stored user whose role is student, in the order
\* of registration, and no other row: no row is that of the requesting
\* teacher or of any admin; totalStudents is the length of the array and
\* activeNow is at most that.
C15_OnlyStudentsListed ==
  (last.route = "teacher/activity" /\ last.status = 200) =>
    LET rows == last.body.students
        stats == last.body.stats
    IN /\ Len(rows) = Cardinality(StudentIndexes)
       /\ \A i \in StudentIndexes :
            LET row == rows[Cardinality({j \in StudentIndexes : j <= i})]
            IN /\ row.id = users[i].id
               /\ row.email = users[i].email
               /\ row.name = users[i].name
       /\ \A i \in DOMAIN users \ StudentIndexes :
            \A p \in DOMAIN rows : rows[p].email # users[i].email
       /\ Attached(last.req.cookie).role = "admin"
       /\ \A p \in DOMAIN rows : rows[p].email # Attached(last.req.cookie).email
       /\ stats.totalStudents = Len(rows)
       /\ stats.activeNow <= Len(rows)

\* A teacher looked at the view while one student and the teacher are
\* registered and an entry is logged: the array has the student's row only.
C15_Witness ==
  /\ last.route = "teacher/activity"
  /\ last.status = 200
  /\ Len(users) = 2
  /\ Len(last.body.students) = 1
  /\ last.body.students[1].email = EmailLower
  /\ aiUsageLog # <<>>

\* C16: in a 200 response of the teacher activity view averageUsage is the
\* number 0 when no stored user is a student, whatever the size of the
\* usage log; when there are students it is the size of the log divided by
\* their number, printed to one decimal place.
C16_AverageDefined ==
  (last.route = "teacher/activity" /\ last.status = 200) =>
    LET avg == last.body.stats.averageUsage
        S == Cardinality(StudentIndexes)
        L == Len(aiUsageLog)
    IN IF S = 0
       THEN avg = Num(0)
       ELSE /\ avg.t = "string"
            /\ 2 * (10 * L - avg.tenths * S) <= S
            /\ 2 * (avg.tenths * S - 10 * L) <= S

\* Only a teacher is registered, the teacher's own remix is in the log, and
\* the view answered.
C16_Witness ==
  /\ last.route = "teacher/activity"
  /\ last.status = 200
  /\ StudentIndexes = {}
  /\ aiUsageLog # <<>>
  /\ last.body.stats.totalUsage = 1

\* The record carries no password field.
NoSecret(record) == "password" \notin DOMAIN record

\* C17: every stored password is the bcrypt hash of the password supplied
\* at registration and never that password itself, and no user record in a
\* 200 response of login, auth/me, teacher/students, teacher/activity or
\* test/users has a password field.
C17_NoSecretInResponses ==
  /\ \A i \in DOMAIN users :
       /\ DOMAIN users[i].password = {"bcrypt"}
       /\ users[i].password # GoodPassword
       /\ users[i].password.bcrypt = GoodPassword.s
  /\ (last.route = "login" /\ last.status = 200) => NoSecret(last.body.user)
  /\ (last.route = "me" /\ last.status = 200) => NoSecret(last.body)
  /\ (last.route = "teacher/students" /\ last.status = 200) =>
       \A p \in DOMAIN last.body.students : NoSecret(last.body.students[p])
  /\ (last.route = "teacher/activity" /\ last.status = 200) =>
       /\ \A p \in DOMAIN last.body.students : NoSecret(last.body.students[p])
       /\ \A p \in DOMAIN last.body.recentActivity : NoSecret(last.body.recentActivity[p])
  /\ (last.route = "test/users" /\ last.status = 200) =>
       \A p \in DOMAIN last.body.users : NoSecret(last.body.users[p])

\* The listing of test/users returned two stored records, email included.
C17_Witness ==
  /\ last.route = "test/users"
  /\ last.status = 200
  /\ Len(last.body.users) = 2
  /\ last.body.users[2].email = users[2].email
  /\ "password" \in DOMAIN users[2]

\* C18: an authenticated remix call is decided by the first check that
\* fails, in the order content, provider key, assignment policy: content
\* absent or blank gives 400 whatever the key and the assignment; content
\* present with no key gives 500 "AI service not configured" whatever the
\* assignment; content and key present with an assignment that forbids AI
\* gives 403; and none of the three dispatches an upstream call.
C18_ChecksInOrder ==
  [][(CallOf("ai/remix") /\ Authenticates(last'.req.cookie)) =>
       LET body == last'.req.body
           early == /\ pending' = pending
                    /\ last'.by = "handler"
       IN /\ ~HasText(body.content) =>
               /\ last'.status = 400
               /\ last'.body = [error |-> "Content is required"]
               /\ early
          /\ (HasText(body.content) /\ GEMINI_API_KEY = Undefined) =>
               /\ last'.status = 500
               /\ last'.body = [error |-> "AI service not configured"]
               /\ early
          /\ (HasText(body.content) /\ GEMINI_API_KEY # Undefined
                /\ ForbidsAI(body.assignmentId)) =>
               /\ last'.status = 403
               /\ early]_vars

\* Blank content for the assignment that forbids AI, sent while no key is
\* configured, got the content error.
C18_Witness ==
  /\ last.route = "ai/remix"
  /\ last.status = 400
  /\ last.req.cookie \in issued
  /\ last.req.body.content = Blank
  /\ last.req.body.assignmentId = Str("2")
  /\ GEMINI_API_KEY = Undefined

RemixStatuses == {200, 400, 403, 500, 504}

\* The request of the suspended handler h has been answered.
Answered(h) ==
  /\ last.route = "ai/remix"
  /\ last.req = h.req
  /\ last.by \in {"handler", "catch"}
  /\ last.status \in {200, 500, 504}

\* C19: every remix whose upstream call is in flight is eventually
\* answered, with 200, 500 or 504; a step of the remix handler past
\* requireAuth either answers with a status in {200, 400, 403, 500, 504} or
\* suspends at the upstream call; a call step resumes nothing, and the step
\* after the upstream call resumes exactly one suspended handler and
\* answers its request, so a request gets one response.
C19_EveryRemixAnswered ==
  /\ \A h \in PendingRemixes : BagIn(h, pending) ~> Answered(h)
  /\ [][last'.route = "ai/remix" =>
          /\ \A h \in BagToSet(pending') : h.kind = "remix" => h \in PendingRemixes
          /\ \/ /\ last'.status = 0
                /\ last'.by = "await"
                /\ BagCardinality(pending') = BagCardinality(pending) + 1
             \/ /\ last'.by = "requireAuth"
                /\ pending' = pending
             \/ /\ last'.by \in {"handler", "catch"}
                /\ last'.status \in RemixStatuses
                /\ \/ pending' = pending
                   \/ /\ BagCardinality(pending') = BagCardinality(pending) - 1
                      /\ \E h \in BagToSet(pending) :
                           /\ h.kind = "remix"
                           /\ h.req = last'.req
                           /\ pending' = pending (-) SetToBag({h})]_vars

\* While an upstream call is in flight another request was served.
C19_Witness ==
  /\ last.route = "me"
  /\ last.status = 200
  /\ InFlight("remix") > 0

\* The 18 keys the claim names.
NamedTemplates ==
  {"tweet", "linkedin", "instagram", "facebook", "reddit", "youtube", "tiktok",
   "pinterest", "summary", "bullets", "expand", "email", "ad", "blog", "story",
   "professional", "casual", "creative"}

\* C20: the template of every upstream request is the one mapped to the
\* remixType when that is one of the 18 named keys, and the
\* professional-tone template for every other remixType and for an absent
\* one; and an authenticated call with content, with the key configured and
\* no assignment is not refused, whatever its remixType.
C20_TemplateChosen ==
  /\ \A h \in BagToSet(pending) :
       h.kind = "remix" =>
         h.prompt =
           [template |->
              IF h.req.body.remixType.t = "string" /\ h.req.body.remixType.s \in NamedTemplates
              THEN h.req.body.remixType.s
              ELSE "professional"]
  /\ last.route = "ai/remix" => last.status \notin {400, 403}

\* The entries in the usage log that carry the id.
EntriesOf(id) == Len(SelectSeq(aiUsageLog, LAMBDA e : e.userId = id))

\* C21: for every stored user, aiUsageCount equals totalAIRequests, the
\* entries in the usage log with the user's id number at most aiUsageCount,
\* and exactly aiUsageCount while the log has not reached its capacity (no
\* entry has been evicted, so the entries are all the appends ever made);
\* the log holds at most as many entries as the users' aiUsageCount sum to.
C21_CountsMatchLedger ==
  /\ \A i \in DOMAIN users :
       /\ users[i].aiUsageCount = users[i].totalAIRequests
       /\ EntriesOf(users[i].id) <= users[i].aiUsageCount
       /\ Len(aiUsageLog) < LogCap => EntriesOf(users[i].id) = users[i].aiUsageCount
  /\ Len(aiUsageLog) <= usesOf(users)

\* C22: a logout answers 200 for every cookie, authenticated or not, and
\* changes neither users nor the usage log nor anything else the server
\* holds, so requireAuth decides every cookie after the logout as before
\* it; a token that a login issued is accepted by a gated route whenever it
\* has not expired and its user is stored, whatever logouts came before.
C22_LogoutStateless ==
  [][/\ last'.route = "logout" =>
          /\ last'.status = 200
          /\ last'.body = [message |-> "Logged out successfully"]
          /\ users' = users
          /\ aiUsageLog' = aiUsageLog
          /\ pending' = pending
          /\ issued' = issued
          /\ \A c \in CookieJar :
               /\ requireAuth(c)' = requireAuth(c)
               /\ Authenticates(c) => requireAuth(c)'.next
     /\ (last'.route = "me" /\ Authenticates(last'.req.cookie)) =>
          /\ last'.status = 200
          /\ last'.body.id = last'.req.cookie.payload.userId]_vars

\* A logout was sent with a token a login issued, and requireAuth still
\* accepts that token.
C22_Witness ==
  /\ last.route = "logout"
  /\ last.status = 200
  /\ last.req.cookie \in issued
  /\ requireAuth(last.req.cookie).next

=============================================================================
